---------------------------- MODULE Spec2Model ----------------------------
(***************************************************************************)
(* Model of financial_dashboard.py: the metric computations                *)
(* (calculate_metrics, the Portfolio Analysis tab, the Risk Metrics tab)   *)
(* and the script run that fetches the tickers and renders the four tabs.  *)
(*                                                                         *)
(* Numbers.  The program computes in IEEE doubles; the model computes in   *)
(* exact arithmetic extended with the non-finite values NaN, +inf, -inf:   *)
(*   - a rational is <<n, d>> in lowest terms with d > 0;                  *)
(*     NaN is <<0,0>>, +inf is <<1,0>>, -inf is <<-1,0>>;                  *)
(*   - a quantity that involves a square root (std, volatility, Sharpe     *)
(*     ratio, correlation) is [coef, rad], standing for coef * sqrt(rad),  *)
(*     kept canonical (rad a square-free rational), so that = on these     *)
(*     records is equality of the numbers.                                 *)
(* Rounding error of doubles is therefore not modelled.                    *)
(*                                                                         *)
(* Data.  A DataFrame is [hasClose, rows]: rows is a sequence of [t, c],   *)
(* t the timestamp (strictly increasing) and c the close (> 0).  A pandas  *)
(* Series is a sequence of [t, v] with v a rational or NaN.                *)
(***************************************************************************)
EXTENDS Integers, Sequences, FiniteSets, TLC

VARIABLES
    arg,              \* calculate_metrics / pct_change called alone: the argument
    out,              \* ... and what the call produced
    selected_stocks,  \* the tickers parsed from the sidebar, in order
    provider,         \* what yf.download yields per ticker in this run
    idx,              \* number of completed iterations of the fetch loop
    stock_data,       \* the dict ticker -> DataFrame, in insertion order
    pc,               \* position of the script run
    overview,         \* Tab 1: the metrics shown per ticker
    portfolio,        \* Tab 3: what the Portfolio Analysis branch computed
    risk              \* Tab 4: risk_data, var_data and an escaped exception

vars == <<arg, out, selected_stocks, provider, idx, stock_data, pc,
          overview, portfolio, risk>>

\* ------------------------------------------------------------ bounds
MaxTime == 3
MaxStocks == 3

\* ------------------------------------------------------------ numbers
Abs(n) == IF n < 0 THEN -n ELSE n
Sgn(n) == IF n < 0 THEN -1 ELSE IF n = 0 THEN 0 ELSE 1

RECURSIVE GCD(_, _)
GCD(a, b) == IF b = 0 THEN a ELSE GCD(b, a % b)

NaN == <<0, 0>>
Zero == <<0, 1>>
One == <<1, 1>>

\* n / d as a double would hold it: lowest terms, or +-inf / NaN for d = 0
Rat(n, d) ==
    IF d = 0 THEN <<Sgn(n), 0>>
    ELSE LET g == GCD(Abs(n), Abs(d))
             s == Sgn(d)
         IN <<(s * n) \div g, (s * d) \div g>>

RInt(n) == <<n, 1>>
IsNaN(a) == a = NaN
IsFinite(a) == a[2] # 0

RNeg(a) == <<-a[1], a[2]>>

RAdd(a, b) ==
    IF IsFinite(a) /\ IsFinite(b) THEN Rat(a[1] * b[2] + b[1] * a[2], a[2] * b[2])
    ELSE IF IsNaN(a) \/ IsNaN(b) THEN NaN
    ELSE IF ~IsFinite(a) /\ ~IsFinite(b) THEN (IF a = b THEN a ELSE NaN)
    ELSE IF ~IsFinite(a) THEN a ELSE b

RSub(a, b) == RAdd(a, RNeg(b))

RMul(a, b) ==
    IF IsFinite(a) /\ IsFinite(b) THEN Rat(a[1] * b[1], a[2] * b[2])
    ELSE IF IsNaN(a) \/ IsNaN(b) \/ a[1] = 0 \/ b[1] = 0 THEN NaN
    ELSE <<Sgn(a[1]) * Sgn(b[1]), 0>>

RDiv(a, b) ==
    IF IsFinite(a) /\ IsFinite(b) THEN Rat(a[1] * b[2], a[2] * b[1])
    ELSE IF IsNaN(a) \/ IsNaN(b) THEN NaN
    ELSE IF ~IsFinite(a) /\ ~IsFinite(b) THEN NaN
    ELSE IF ~IsFinite(a) THEN <<Sgn(a[1]) * (IF b[1] < 0 THEN -1 ELSE 1), 0>>
    ELSE Zero

\* a < b; FALSE when either is NaN, as for doubles
RLt(a, b) ==
    IF IsNaN(a) \/ IsNaN(b) THEN FALSE
    ELSE IF IsFinite(a) /\ IsFinite(b) THEN a[1] * b[2] < b[1] * a[2]
    ELSE IF ~IsFinite(a) /\ ~IsFinite(b) THEN a[1] < b[1]
    ELSE IF ~IsFinite(a) THEN a[1] < 0 ELSE b[1] > 0

RLe(a, b) == ~IsNaN(a) /\ ~IsNaN(b) /\ ~RLt(b, a)

\* the largest s with s*s dividing n, searched from s upward
RECURSIVE SqPart(_, _)
SqPart(n, s) ==
    IF s * s > n THEN 1
    ELSE IF n % (s * s) = 0 THEN s * SqPart(n \div (s * s), s)
    ELSE SqPart(n, s + 1)

RealNaN == [coef |-> NaN, rad |-> One]
RealZero == [coef |-> Zero, rad |-> One]
RealOne == [coef |-> One, rad |-> One]

\* coef * sqrt(rad), canonical
MkReal(c, r) ==
    IF ~IsFinite(r) \/ ~IsFinite(c) THEN [coef |-> RMul(c, r), rad |-> One]
    ELSE IF r[1] < 0 THEN RealNaN
    ELSE IF c[1] = 0 \/ r[1] = 0 THEN RealZero
    ELSE LET sn == SqPart(r[1], 2)
             sd == SqPart(r[2], 2)
         IN [coef |-> RMul(c, Rat(sn, sd)),
             rad |-> Rat(r[1] \div (sn * sn), r[2] \div (sd * sd))]

FromRat(q) == MkReal(q, One)
Sqrt(q) == MkReal(One, q)
RealIsNaN(x) == IsNaN(x.coef)
RealMul(x, y) == MkReal(RMul(x.coef, y.coef), RMul(x.rad, y.rad))
RealDiv(x, y) ==
    IF ~IsFinite(x.coef) \/ ~IsFinite(y.coef) \/ y.coef[1] = 0
    THEN MkReal(RDiv(x.coef, y.coef), One)
    ELSE MkReal(RDiv(x.coef, RMul(y.coef, y.rad)), RMul(x.rad, y.rad))


\* ------------------------------------------------------------ pandas / numpy
None == [none |-> TRUE]

\* df['Close']
Close(df) == [k \in 1..Len(df.rows) |-> [t |-> df.rows[k].t, v |-> RInt(df.rows[k].c)]]

\* pct_change relative to the current row instead of the previous one
pct_change_over_current(s) ==
    [k \in 1..Len(s) |->
        [t |-> s[k].t,
         v |-> IF k = 1 THEN NaN ELSE RSub(One, RDiv(s[k-1].v, s[k].v))]]

\* Series.pct_change(): s / s.shift(1) - 1, NaN in the first row
pct_change(s) ==
    [k \in 1..Len(s) |->
        [t |-> s[k].t,
         v |-> IF k = 1 THEN NaN ELSE RSub(RDiv(s[k].v, s[k-1].v), One)]]

NotNaN(e) == ~IsNaN(e.v)

\* Series.dropna()
dropna(s) == SelectSeq(s, NotNaN)

\* s + c and s - c, elementwise
SeriesAdd(s, c) == [k \in 1..Len(s) |-> [t |-> s[k].t, v |-> RAdd(s[k].v, c)]]

RECURSIVE SumFrom(_, _)
SumFrom(s, k) == IF k > Len(s) THEN Zero ELSE RAdd(s[k].v, SumFrom(s, k + 1))

\* Series.mean(): NaN skipped, NaN when nothing is left
mean(s) ==
    LET x == dropna(s)
    IN IF Len(x) = 0 THEN NaN ELSE RDiv(SumFrom(x, 1), RInt(Len(x)))

RECURSIVE SumSqDevFrom(_, _, _)
SumSqDevFrom(s, m, k) ==
    IF k > Len(s) THEN Zero
    ELSE RAdd(RMul(RSub(s[k].v, m), RSub(s[k].v, m)), SumSqDevFrom(s, m, k + 1))

\* Series.std(): sample standard deviation (ddof = 1), NaN below two values
std(s) ==
    LET x == dropna(s)
    IN IF Len(x) < 2 THEN RealNaN
       ELSE Sqrt(RDiv(SumSqDevFrom(x, mean(x), 1), RInt(Len(x) - 1)))

\* the product of the values of rows 1..k that are not NaN
RECURSIVE ProdTo(_, _)
ProdTo(s, k) ==
    IF k = 0 THEN One
    ELSE IF IsNaN(s[k].v) THEN ProdTo(s, k - 1)
    ELSE RMul(ProdTo(s, k - 1), s[k].v)

\* Series.cumprod(): NaN rows stay NaN and are skipped by the product
cumprod(s) ==
    [k \in 1..Len(s) |->
        [t |-> s[k].t, v |-> IF IsNaN(s[k].v) THEN NaN ELSE ProdTo(s, k)]]

RECURSIVE MaxTo(_, _)
MaxTo(s, k) ==
    IF k = 0 THEN NaN
    ELSE LET m == MaxTo(s, k - 1)
         IN IF IsNaN(s[k].v) THEN m
            ELSE IF IsNaN(m) \/ RLt(m, s[k].v) THEN s[k].v ELSE m

\* Series.expanding().max()
expanding_max(s) == [k \in 1..Len(s) |-> [t |-> s[k].t, v |-> MaxTo(s, k)]]

RECURSIVE MinTo(_, _)
MinTo(s, k) ==
    IF k = 0 THEN NaN
    ELSE LET m == MinTo(s, k - 1)
         IN IF IsNaN(s[k].v) THEN m
            ELSE IF IsNaN(m) \/ RLt(s[k].v, m) THEN s[k].v ELSE m

\* Series.min(): NaN skipped, NaN for an empty series
min(s) == MinTo(s, Len(s))

Sqrt252 == Sqrt(RInt(252))

\* ------------------------------------------------------------ calculate_metrics
\* risk_free_rate / 252 with risk_free_rate = 0.02
RiskFreePerPeriod == Rat(2, 100 * 252)

\* daily_returns = df['Close'].pct_change().dropna()
DailyReturns(close) == dropna(pct_change(close))

\* total_return = ((current_price - start_price) / start_price) * 100
TotalReturn(close) ==
    RMul(RDiv(RSub(close[Len(close)].v, close[1].v), close[1].v), RInt(100))

\* volatility = daily_returns.std() * np.sqrt(252) * 100
Volatility(daily_returns) ==
    RealMul(RealMul(std(daily_returns), Sqrt252), FromRat(RInt(100)))

\* the Sharpe ratio without the zero-deviation guard
SharpeRatioNoGuard(daily_returns) ==
    LET excess_returns == SeriesAdd(daily_returns, RNeg(RiskFreePerPeriod))
    IN RealMul(RealDiv(FromRat(mean(excess_returns)), std(daily_returns)), Sqrt252)

\* sharpe_ratio = (excess_returns.mean() / daily_returns.std()) * np.sqrt(252)
\*                if daily_returns.std() != 0 else 0
SharpeRatio(daily_returns) ==
    LET excess_returns == SeriesAdd(daily_returns, RNeg(RiskFreePerPeriod))
    IN IF std(daily_returns) # RealZero
       THEN RealMul(RealDiv(FromRat(mean(excess_returns)), std(daily_returns)), Sqrt252)
       ELSE RealZero

\* cumulative = (1 + daily_returns).cumprod()
Cumulative(daily_returns) == cumprod(SeriesAdd(daily_returns, One))

\* drawdown = (cumulative - running_max) / running_max
Drawdown(daily_returns) ==
    LET cumulative == Cumulative(daily_returns)
        running_max == expanding_max(cumulative)
    IN [k \in 1..Len(cumulative) |->
          [t |-> cumulative[k].t,
           v |-> RDiv(RSub(cumulative[k].v, running_max[k].v), running_max[k].v)]]

\* drawdown.max() taken for drawdown.min()
MaxDrawdownOfMax(daily_returns) ==
    LET drawdown == Drawdown(daily_returns)
    IN RMul(MaxTo(drawdown, Len(drawdown)), RInt(100))

\* max_drawdown = drawdown.min() * 100
MaxDrawdown(daily_returns) == RMul(min(Drawdown(daily_returns)), RInt(100))

\* the body of the try block: the record, or the exception it raises
MetricsBody(df) ==
    IF df = None THEN [raised |-> "TypeError"]
    ELSE IF ~df.hasClose THEN [raised |-> "KeyError"]
    ELSE IF Len(df.rows) = 0 THEN [raised |-> "IndexError"]
    ELSE LET close == Close(df)
             daily_returns == DailyReturns(close)
         IN [current_price |-> close[Len(close)].v,
             total_return |-> TotalReturn(close),
             volatility |-> Volatility(daily_returns),
             sharpe_ratio |-> SharpeRatio(daily_returns),
             max_drawdown |-> MaxDrawdown(daily_returns)]

Raised(r) == "raised" \in DOMAIN r

\* the body without its try / except
NoTryExcept(r) == r

\* try: ... except Exception: st.error(...); return None
TryExcept(r) == IF Raised(r) THEN None ELSE r

\* df is None or df.empty (a frame with no rows)
IsEmpty(df) == df = None \/ Len(df.rows) = 0

calculate_metrics(df) ==
    IF IsEmpty(df) THEN None ELSE TryExcept(MetricsBody(df))

\* ------------------------------------------------------------ inputs
Times == 1..MaxTime
\* the closes a series draws from: the returns are 0, +100% and -50%
Prices == {1, 2}

\* the timestamps of T in increasing order
RECURSIVE SortedSeq(_)
SortedSeq(T) ==
    IF T = {} THEN <<>>
    ELSE LET m == CHOOSE x \in T : \A y \in T : x <= y
         IN <<m>> \o SortedSeq(T \ {m})

\* every price series over the timestamps Times: strictly increasing
\* timestamps, closes > 0
PriceRows ==
    UNION {
      LET ts == SortedSeq(T)
      IN { [k \in 1..Len(ts) |-> [t |-> ts[k], c |-> f[ts[k]]]] : f \in [T -> Prices] }
      : T \in SUBSET Times }

PriceFrames == { [hasClose |-> TRUE, rows |-> r] : r \in PriceRows }

\* a frame whose columns were not normalised to 'Close'
OtherFrames == { [hasClose |-> FALSE, rows |-> r] : r \in PriceRows }

\* ------------------------------------------------------------ calls of the pure functions
NotCalled == [op |-> "none"]

\* Tab 3 and Tab 4 before the run reaches them
NotRendered == [branch |-> "none"]
NoRisk == [risk_data |-> <<>>, var_data |-> <<>>, raised |-> "none"]

InitCalc ==
    /\ arg \in {None} \cup PriceFrames \cup OtherFrames
    /\ out = NotCalled
    /\ selected_stocks = <<>>
    /\ provider = <<>>
    /\ idx = 0
    /\ stock_data = <<>>
    /\ pc = "call"
    /\ overview = <<>>
    /\ portfolio = NotRendered
    /\ risk = NoRisk

runVars == <<selected_stocks, provider, idx, stock_data, overview, portfolio, risk>>

CallCalculateMetrics ==
    /\ pc = "call"
    /\ out' = [op |-> "calculate_metrics", value |-> calculate_metrics(arg)]
    /\ pc' = "returned"
    /\ UNCHANGED <<arg, runVars>>

CallDailyReturns ==
    /\ pc = "call"
    /\ arg # None /\ arg.hasClose
    /\ out' = [op |-> "daily_returns", value |-> DailyReturns(Close(arg))]
    /\ pc' = "returned"
    /\ UNCHANGED <<arg, runVars>>

NextCalc == CallCalculateMetrics \/ CallDailyReturns

SpecCalc == InitCalc /\ [][NextCalc]_vars

\* ------------------------------------------------------------ the fetch loop
\* yf.download raised
DownloadError == [raised |-> "Exception"]

\* fetch_stock_data: None for an exception or an empty frame, else the frame
fetch_stock_data(ticker) ==
    LET df == provider[ticker]
    IN IF Raised(df) THEN None
       ELSE IF Len(df.rows) = 0 THEN None
       ELSE df

Keys(sd) == { sd[k].ticker : k \in 1..Len(sd) }

\* stock_data[ticker] = data: a known key keeps its place
DictSet(sd, ticker, data) ==
    IF ticker \in Keys(sd)
    THEN [k \in 1..Len(sd) |-> IF sd[k].ticker = ticker THEN [ticker |-> ticker, df |-> data] ELSE sd[k]]
    ELSE Append(sd, [ticker |-> ticker, df |-> data])

\* if data is not None and not data.empty
HasData(data) == data # None /\ ~IsEmpty(data)

\* if not selected_stocks: st.warning(...); st.stop()
Stop ==
    /\ pc = "fetch"
    /\ Len(selected_stocks) = 0
    /\ pc' = "stopped"
    /\ UNCHANGED <<arg, out, runVars>>

\* one iteration of the loop over selected_stocks
FetchOne ==
    /\ pc = "fetch"
    /\ idx < Len(selected_stocks)
    /\ LET ticker == selected_stocks[idx + 1]
           data == fetch_stock_data(ticker)
       IN stock_data' = IF HasData(data) THEN DictSet(stock_data, ticker, data) ELSE stock_data
    /\ idx' = idx + 1
    /\ pc' = IF idx + 1 = Len(selected_stocks) THEN "overview" ELSE "fetch"
    /\ UNCHANGED <<arg, out, selected_stocks, provider, overview, portfolio, risk>>

\* ------------------------------------------------------------ Tab 1 and Tab 2
\* the (ticker, metrics) pairs of the tickers whose metrics are truthy
RECURSIVE MetricsRows(_, _)
MetricsRows(sd, k) ==
    IF k > Len(sd) THEN <<>>
    ELSE LET metrics == calculate_metrics(sd[k].df)
         IN (IF metrics # None THEN <<[ticker |-> sd[k].ticker, metrics |-> metrics]>> ELSE <<>>)
            \o MetricsRows(sd, k + 1)

OverviewTab ==
    /\ pc = "overview"
    /\ overview' = MetricsRows(stock_data, 1)
    /\ pc' = "performance"
    /\ UNCHANGED <<arg, out, selected_stocks, provider, idx, stock_data, portfolio, risk>>

\* charts of the selected stock only
PerformanceTab ==
    /\ pc = "performance"
    /\ pc' = "portfolio"
    /\ UNCHANGED <<arg, out, runVars>>

\* ------------------------------------------------------------ Tab 3: Portfolio Analysis
EmptyFrame == [index |-> <<>>, columns |-> <<>>]

HasRow(s, t) == \E j \in 1..Len(s) : s[j].t = t
RowAt(s, t) == s[CHOOSE j \in 1..Len(s) : s[j].t = t]

\* Series.reindex(index): NaN where the series has no row
Reindex(s, index) ==
    [k \in 1..Len(index) |->
        [t |-> index[k], v |-> IF HasRow(s, index[k]) THEN RowAt(s, index[k]).v ELSE NaN]]

\* frame[name] = s: an empty frame takes the index of s, any other frame
\* reindexes s to its own index
SetColumn(frame, name, s) ==
    IF Len(frame.columns) = 0 /\ Len(frame.index) = 0
    THEN [index |-> [k \in 1..Len(s) |-> s[k].t],
          columns |-> <<[name |-> name, values |-> s]>>]
    ELSE [index |-> frame.index,
          columns |-> Append(frame.columns,
                             [name |-> name, values |-> Reindex(s, frame.index)])]

\* for ticker, df in stock_data.items():
\*     portfolio_returns[ticker] = df['Close'].pct_change()
RECURSIVE AddReturnColumns(_, _, _)
AddReturnColumns(frame, sd, k) ==
    IF k > Len(sd) THEN frame
    ELSE AddReturnColumns(SetColumn(frame, sd[k].ticker, pct_change(Close(sd[k].df))), sd, k + 1)

\* frame.mean(axis=1): per row, the mean of the values that are not NaN
RowMean(frame) ==
    [k \in 1..Len(frame.index) |->
        [t |-> frame.index[k],
         v |-> mean([j \in 1..Len(frame.columns) |->
                       [t |-> j, v |-> frame.columns[j].values[k].v]])]]

\* the rows at which both series hold a number
PairRows(x, y) == { k \in 1..Len(x) : ~IsNaN(x[k].v) /\ ~IsNaN(y[k].v) }

RECURSIVE SumOver(_, _, _)
SumOver(x, K, k) ==
    IF k > Len(x) THEN Zero
    ELSE RAdd(IF k \in K THEN x[k].v ELSE Zero, SumOver(x, K, k + 1))

RECURSIVE SumProdDev(_, _, _, _, _, _)
SumProdDev(x, mx, y, my, K, k) ==
    IF k > Len(x) THEN Zero
    ELSE RAdd(IF k \in K THEN RMul(RSub(x[k].v, mx), RSub(y[k].v, my)) ELSE Zero,
              SumProdDev(x, mx, y, my, K, k + 1))

\* one entry of libalgos.nancorr (Pearson, min_periods = 1)
nancorr(x, y) ==
    LET K == PairRows(x, y)
        nobs == Cardinality(K)
    IN IF nobs < 1 THEN RealNaN
       ELSE LET mx == RDiv(SumOver(x, K, 1), RInt(nobs))
                my == RDiv(SumOver(y, K, 1), RInt(nobs))
                ssqdm_x == SumProdDev(x, mx, x, mx, K, 1)
                ssqdm_y == SumProdDev(y, my, y, my, K, 1)
                covxy == SumProdDev(x, mx, y, my, K, 1)
                divisor == Sqrt(RMul(ssqdm_x, ssqdm_y))
            IN IF divisor # RealZero THEN RealDiv(FromRat(covxy), divisor) ELSE RealNaN

Max2(i, j) == IF i < j THEN j ELSE i
Min2(i, j) == IF i < j THEN i ELSE j

\* DataFrame.corr(): the entries xi >= yi are computed and mirrored
corr(frame) ==
    [p \in { <<frame.columns[i].name, frame.columns[j].name>> :
                 i \in 1..Len(frame.columns), j \in 1..Len(frame.columns) } |->
        LET i == CHOOSE i \in 1..Len(frame.columns) : frame.columns[i].name = p[1]
            j == CHOOSE j \in 1..Len(frame.columns) : frame.columns[j].name = p[2]
        IN nancorr(frame.columns[Max2(i, j)].values, frame.columns[Min2(i, j)].values)]

\* the guard off by one
PortfolioGuardAtLeastOne(sd) == Len(sd) > 0

\* if stock_data and len(stock_data) > 1
PortfolioGuard(sd) == Len(sd) > 1

\* sum(axis=1) taken for mean(axis=1)
PortfolioColumnSum(returns) ==
    [k \in 1..Len(returns.index) |->
        [t |-> returns.index[k],
         v |-> LET row == dropna([j \in 1..Len(returns.columns) |->
                                   [t |-> j, v |-> returns.columns[j].values[k].v]])
               IN IF Len(row) = 0 THEN NaN ELSE SumFrom(row, 1)]]

\* portfolio_returns['Portfolio'] = portfolio_returns.mean(axis=1)
PortfolioColumn(returns) == RowMean(returns)

PortfolioAnalysis(sd) ==
    LET returns == AddReturnColumns(EmptyFrame, sd, 1)
        Portfolio == PortfolioColumn(returns)
        cumulative_portfolio == cumprod(SeriesAdd(Portfolio, One))
        portfolio_daily == dropna(Portfolio)
    IN [branch |-> "analysis",
        tickers |-> [k \in 1..Len(sd) |-> sd[k].ticker],
        portfolio_returns |-> returns,
        portfolio_daily |-> portfolio_daily,
        portfolio_total_return |->
            RMul(RSub(cumulative_portfolio[Len(cumulative_portfolio)].v, One), RInt(100)),
        portfolio_volatility |-> Volatility(portfolio_daily),
        portfolio_sharpe |-> SharpeRatio(portfolio_daily),
        portfolio_max_dd |-> MaxDrawdown(portfolio_daily),
        correlation |-> corr(returns)]

PortfolioTab ==
    /\ pc = "portfolio"
    /\ portfolio' = IF PortfolioGuard(stock_data) THEN PortfolioAnalysis(stock_data)
                    ELSE IF Len(stock_data) = 1 THEN [branch |-> "info"]
                    ELSE [branch |-> "warning"]
    /\ pc' = "risk"
    /\ UNCHANGED <<arg, out, selected_stocks, provider, idx, stock_data, overview, risk>>

\* ------------------------------------------------------------ Tab 4: Risk Metrics
RECURSIVE Insert(_, _)
Insert(sorted, v) ==
    IF Len(sorted) = 0 THEN <<v>>
    ELSE IF RLe(v, Head(sorted)) THEN <<v>> \o sorted
    ELSE <<Head(sorted)>> \o Insert(Tail(sorted), v)

RECURSIVE SortValues(_, _)
SortValues(s, k) == IF k = 0 THEN <<>> ELSE Insert(SortValues(s, k - 1), s[k].v)

\* np.percentile(s, q) of a non-empty series: linear interpolation between
\* the closest ranks
percentile(s, q) ==
    LET x == SortValues(s, Len(s))
        n == Len(x)
        lo == ((n - 1) * q) \div 100
        frac == Rat(((n - 1) * q) % 100, 100)
    IN IF lo + 2 > n THEN x[lo + 1]
       ELSE RAdd(x[lo + 1], RMul(frac, RSub(x[lo + 2], x[lo + 1])))

VarPercentile == 5

\* np.percentile of an empty array: an IndexError or nan, by numpy version
PercentileOfEmpty == {"IndexError", "nan"}

\* the VaR loop from ticker k on: var_data, and the exception that ended it
RECURSIVE VarLoop(_, _, _, _)
VarLoop(sd, k, var_data, ofEmpty) ==
    IF k > Len(sd) THEN [var_data |-> var_data, raised |-> "none"]
    ELSE LET daily_returns == DailyReturns(Close(sd[k].df))
         IN IF Len(daily_returns) = 0 /\ ofEmpty = "IndexError"
            THEN [var_data |-> var_data, raised |-> "IndexError"]
            ELSE LET var_95 == IF Len(daily_returns) = 0 THEN NaN
                               ELSE RMul(percentile(daily_returns, VarPercentile), RInt(100))
                 IN VarLoop(sd, k + 1,
                            Append(var_data, [ticker |-> sd[k].ticker, var_95 |-> var_95]),
                            ofEmpty)

RiskAnalysis(sd, ofEmpty) ==
    LET risk_data == MetricsRows(sd, 1)
    IN IF Len(sd) = 0 \/ Len(risk_data) = 0
       THEN [risk_data |-> risk_data, var_data |-> <<>>, raised |-> "none"]
       ELSE [risk_data |-> risk_data] @@ VarLoop(sd, 1, <<>>, ofEmpty)

\* Tab 4 and the footer; an exception that escapes ends the run
RiskTab ==
    /\ pc = "risk"
    /\ \E ofEmpty \in PercentileOfEmpty :
          risk' = RiskAnalysis(stock_data, ofEmpty)
    /\ pc' = IF risk'.raised = "none" THEN "done" ELSE "crashed"
    /\ UNCHANGED <<arg, out, selected_stocks, provider, idx, stock_data, overview, portfolio>>

Next == Stop \/ FetchOne \/ OverviewTab \/ PerformanceTab \/ PortfolioTab \/ RiskTab

\* ------------------------------------------------------------ runs
Tickers == {"A", "B"}

Outcomes == {DownloadError} \cup PriceFrames

InitRunState ==
    /\ arg = None
    /\ out = NotCalled
    /\ idx = 0
    /\ stock_data = <<>>
    /\ pc = "fetch"
    /\ overview = <<>>
    /\ portfolio = NotRendered
    /\ risk = NoRisk

Range(s) == { s[k] : k \in 1..Len(s) }

\* runs over one or two tickers with every price series of the bounds
Init ==
    /\ selected_stocks \in {<<>>, <<"A">>, <<"A", "B">>}
    /\ provider \in [Tickers -> Outcomes]
    /\ \A t \in Tickers \ Range(selected_stocks) : provider[t] = DownloadError
    /\ InitRunState

Spec == Init /\ [][Next]_vars

RunTickers == {"A", "B", "C"}

RunOutcomes ==
    { DownloadError,
      [hasClose |-> TRUE, rows |-> <<>>],
      [hasClose |-> TRUE, rows |-> <<[t |-> 1, c |-> 1]>>],
      [hasClose |-> TRUE, rows |-> <<[t |-> 1, c |-> 1], [t |-> 2, c |-> 2]>>] }

\* runs over up to MaxStocks requested tickers, repeats included
InitRun ==
    /\ selected_stocks \in UNION { [1..n -> RunTickers] : n \in 0..MaxStocks }
    /\ provider \in [RunTickers -> RunOutcomes]
    /\ \A t \in RunTickers \ Range(selected_stocks) : provider[t] = DownloadError
    /\ InitRunState

SpecRun == InitRun /\ [][Next]_vars

\* ------------------------------------------------------------ properties
Timestamps(s) == { s[k].t : k \in 1..Len(s) }

\* the return series of the k-th ticker of stock_data
ReturnsOf(k) == DailyReturns(Close(stock_data[k].df))

\* C1: the portfolio return series holds exactly the timestamps at which
\* all N constituents have a return, and there the mean of all N returns.
C1_InnerJoinEqualWeight ==
    portfolio.branch = "analysis" =>
        LET N == Len(stock_data)
            Common == { t \in Times : \A k \in 1..N : HasRow(ReturnsOf(k), t) }
            daily == portfolio.portfolio_daily
            SumAt(t) == SumFrom([k \in 1..N |-> RowAt(ReturnsOf(k), t)], 1)
        IN /\ Timestamps(daily) = Common
           /\ \A j \in 1..Len(daily) :
                 daily[j].t \in Common => daily[j].v = RDiv(SumAt(daily[j].t), RInt(N))

MetricsFields == {"current_price", "total_return", "volatility", "sharpe_ratio", "max_drawdown"}

\* C2: calculate_metrics returns None exactly when the price series is
\* absent or empty, returns the five-field record for every price series
\* with at least one point, and lets no exception escape for any frame.
C2_AbsentIffEmpty ==
    out.op = "calculate_metrics" =>
        /\ ~Raised(out.value)
        /\ (arg = None \/ arg.hasClose) => (out.value = None <=> IsEmpty(arg))
        /\ (arg # None /\ arg.hasClose /\ Len(arg.rows) >= 1) =>
               DOMAIN out.value = MetricsFields

C2_Witness ==
    /\ out.op = "calculate_metrics"
    /\ arg # None /\ arg.hasClose /\ Len(arg.rows) = 1
    /\ DOMAIN out.value = MetricsFields

\* C3: for every price series with at least one point sharpe_ratio and
\* max_drawdown are numbers: sharpe_ratio is 0 when the standard deviation
\* is NaN or zero, max_drawdown is 0 when the return series is empty.
C3_NeutralValuesNotNaN ==
    (out.op = "calculate_metrics" /\ out.value # None) =>
        LET daily_returns == DailyReturns(Close(arg))
            sd == std(daily_returns)
        IN /\ ~RealIsNaN(out.value.sharpe_ratio)
           /\ ~IsNaN(out.value.max_drawdown)
           /\ (RealIsNaN(sd) \/ sd = RealZero) => out.value.sharpe_ratio = RealZero
           /\ Len(daily_returns) = 0 => out.value.max_drawdown = Zero

IsConstant(rows) == \A k \in 1..Len(rows) : rows[k].c = rows[1].c

\* C4: a constant price series of at least 3 points has total_return,
\* volatility, sharpe_ratio and max_drawdown all 0.
C4_ConstantSeriesAllZero ==
    (out.op = "calculate_metrics" /\ arg # None /\ arg.hasClose
        /\ Len(arg.rows) >= 3 /\ IsConstant(arg.rows)) =>
        /\ out.value # None
        /\ out.value.total_return = Zero
        /\ out.value.volatility = RealZero
        /\ out.value.sharpe_ratio = RealZero
        /\ out.value.max_drawdown = Zero

C4_Witness ==
    /\ out.op = "calculate_metrics"
    /\ arg # None /\ arg.hasClose
    /\ Len(arg.rows) >= 3 /\ IsConstant(arg.rows)
    /\ arg.rows[1].c = 2
    /\ out.value # None

NonDecreasing(W) == \A k \in 2..Len(W) : RLe(W[k-1].v, W[k].v)

DrawdownLaw(daily_returns, max_dd) ==
    Len(daily_returns) > 0 =>
        /\ RLe(max_dd, Zero)
        /\ max_dd = Zero => NonDecreasing(Cumulative(daily_returns))

\* C5: for every non-empty return series, of a ticker or of the portfolio,
\* the max drawdown is <= 0, and it is 0 only if the wealth index never falls.
C5_DrawdownNonPositive ==
    /\ \A k \in 1..Len(overview) :
          \A j \in 1..Len(stock_data) :
             stock_data[j].ticker = overview[k].ticker =>
                DrawdownLaw(ReturnsOf(j), overview[k].metrics.max_drawdown)
    /\ portfolio.branch = "analysis" =>
          DrawdownLaw(portfolio.portfolio_daily, portfolio.portfolio_max_dd)

C5_Witness ==
    /\ Len(overview) = 2
    /\ RLt(overview[1].metrics.max_drawdown, Zero)
    /\ overview[2].metrics.max_drawdown = Zero
    /\ Len(ReturnsOf(2)) > 0
    /\ portfolio.branch = "analysis"
    /\ RLt(portfolio.portfolio_max_dd, Zero)

\* C6: the VaR step raises nothing and makes no row for a ticker whose
\* return series has 0 points.
C6_VarAbsentForEmptyReturns ==
    pc \in {"done", "crashed"} =>
        /\ risk.raised = "none"
        /\ \A k \in 1..Len(stock_data) :
              Len(ReturnsOf(k)) = 0 =>
                 \A j \in 1..Len(risk.var_data) :
                    risk.var_data[j].ticker # stock_data[k].ticker

\* C7: the daily returns of a price series of length n have length
\* max(0, n - 1); the k-th is (p[k+1] - p[k]) / p[k], stamped with the
\* timestamp of p[k+1].
C7_DailyReturns ==
    out.op = "daily_returns" =>
        LET p == arg.rows
            n == Len(p)
            r == out.value
        IN /\ Len(r) = (IF n = 0 THEN 0 ELSE n - 1)
           /\ \A k \in 1..Len(r) :
                 /\ r[k].t = p[k+1].t
                 /\ r[k].v = Rat(p[k+1].c - p[k].c, p[k].c)

C7_Witness ==
    /\ out.op = "daily_returns"
    /\ Len(arg.rows) = 3
    /\ arg.rows[1].c # arg.rows[2].c
    /\ arg.rows[2].c # arg.rows[3].c
    /\ Len(out.value) = 2

SameSeriesTwice ==
    /\ Len(stock_data) = 2
    /\ stock_data[1].df = stock_data[2].df
    /\ Len(stock_data[1].df.rows) >= 3

\* C8: a portfolio of two tickers carrying the same price series (length
\* >= 3) has the total return, volatility, Sharpe ratio and max drawdown
\* that calculate_metrics returns for that series.
C8_IdenticalAssets ==
    (portfolio.branch = "analysis" /\ SameSeriesTwice) =>
        LET m == overview[1].metrics
        IN /\ portfolio.portfolio_total_return = m.total_return
           /\ portfolio.portfolio_volatility = m.volatility
           /\ portfolio.portfolio_sharpe = m.sharpe_ratio
           /\ portfolio.portfolio_max_dd = m.max_drawdown

C8_Witness ==
    /\ portfolio.branch = "analysis"
    /\ SameSeriesTwice
    /\ ~IsConstant(stock_data[1].df.rows)
    /\ overview[1].metrics.total_return # Zero
    /\ RLt(overview[1].metrics.max_drawdown, Zero)

\* C9: the correlation matrix is symmetric and every diagonal entry is 1.0.
C9_CorrelationSymmetricUnitDiagonal ==
    portfolio.branch = "analysis" =>
        \A a \in Range(portfolio.tickers) :
            /\ portfolio.correlation[<<a, a>>] = RealOne
            /\ \A b \in Range(portfolio.tickers) :
                  portfolio.correlation[<<a, b>>] = portfolio.correlation[<<b, a>>]

\* the requested tickers whose fetch returned a non-empty series
WithData ==
    { t \in Range(selected_stocks) : ~Raised(provider[t]) /\ Len(provider[t].rows) > 0 }

\* C10: aggregation starts only after every requested ticker was fetched,
\* only over tickers whose fetch returned a non-empty series, and only
\* when at least 2 of them exist.
C10_AggregationAfterFetches ==
    [][(portfolio.branch # "analysis" /\ portfolio'.branch = "analysis") =>
          /\ idx = Len(selected_stocks)
          /\ Range(portfolio'.tickers) \subseteq WithData
          /\ Cardinality(Range(portfolio'.tickers)) >= 2
          /\ Cardinality(WithData) >= 2]_vars

C10_Witness ==
    /\ portfolio.branch = "analysis"
    /\ Len(selected_stocks) = 3
    /\ selected_stocks[2] \notin WithData
    /\ Range(portfolio.tickers) = {selected_stocks[1], selected_stocks[3]}

=============================================================================
